---- MODULE Spec2Model ----
(***************************************************************************)
(* Model of kvstore/log_kv.py: LogStructuredKV, a log-structured key/value *)
(* store with an in-memory hash index.                                     *)
(*                                                                         *)
(* The directory is a function from file names to byte sequences.  A file  *)
(* name is a number: ACTIVE (0) stands for "active.log", n >= 1 stands for *)
(* "segment-%05d.log" % n.  Records are laid out byte for byte as the code *)
(* writes them: [key_len:4][val_len:4][tomb:1][key][value], big-endian.    *)
(* The index is a sequence of entries in dict insertion order.             *)
(***************************************************************************)
EXTENDS Integers, Sequences, FiniteSets, TLC

\* ---------------------------------------------------------------- bounds
MaxOps == 4

Keys == {<<97>>, <<98>>}

Values == {<<>>, <<49>>, <<50, 50>>}

MaxActiveSizes == {11, 22}

\* ------------------------------------------------------------- constants
HEADER_SIZE == 9

ACTIVE == 0

NoFile == "None"

OpenFile == "open"

VARIABLES
    files,            \* directory: file name -> bytes
    index,            \* self.index, entries in insertion order
    active_file,      \* self.active_file: NoFile or OpenFile (handle on active.log)
    max_active_size,  \* self.max_active_size
    last,             \* the last operation issued other than get
    prev,             \* the operation issued before last
    got,              \* the get issued since the last operation, if any
    live,             \* history: key -> what the set/delete calls so far say get returns
    created,          \* history: the numbers _next_segment_name returned, in order
    comp,             \* the compact() call in progress, when it is taken step by step
    rd,               \* the get() call in progress, when it is taken step by step
    nops              \* number of operations issued

vars == <<files, index, active_file, max_active_size, last, prev, got, live, created, comp, rd, nops>>

\* ------------------------------------------------------------ results
None == [tag |-> "none", val |-> <<>>]

Error == [tag |-> "error", val |-> <<>>]

Value(v) == [tag |-> "value", val |-> v]

NoOp == [op |-> "init", key |-> <<>>, val |-> <<>>, rot |-> FALSE, ok |-> TRUE, closed |-> FALSE]

NoGet == [key |-> <<>>, res |-> None, fresh |-> FALSE]

NoEntry == [k |-> <<>>, file |-> 0, offset |-> 0, size |-> 0]

\* no compact() in progress
CompIdle ==
    [pc |-> "idle", name |-> 0, i |-> 0, out |-> <<>>, new_index |-> <<>>,
     todo |-> {}, closed |-> FALSE]

\* no get() in progress
RdIdle == [pc |-> "idle", key |-> <<>>, entry |-> NoEntry, hit |-> FALSE, res |-> None]

Op(name, k, v, rot, ok) ==
    [op |-> name, key |-> k, val |-> v, rot |-> rot, ok |-> ok, closed |-> active_file = NoFile]

\* ------------------------------------------------------------ byte helpers
SetMax(S) == CHOOSE x \in S : \A y \in S : y <= x

\* struct.pack(">I", n)
U32(n) == << (n \div 16777216) % 256, (n \div 65536) % 256, (n \div 256) % 256, n % 256 >>

\* struct.unpack(">I", b)
UnU32(b) == b[1] * 16777216 + b[2] * 65536 + b[3] * 256 + b[4]

\* mutant of Pack: the tombstone flag is always written as 0
PackMut(key_len, val_len, tomb) == U32(key_len) \o U32(val_len) \o <<0>>

\* struct.pack(HEADER_FORMAT, key_len, val_len, tomb)
Pack(key_len, val_len, tomb) == U32(key_len) \o U32(val_len) \o <<tomb>>

\* f.seek(offset); f.read(n): at most n bytes, fewer at end of file
Read(bytes, offset, n) ==
    IF offset >= Len(bytes) \/ n <= 0 THEN <<>>
    ELSE SubSeq(bytes, offset + 1, IF n > Len(bytes) - offset THEN Len(bytes) ELSE offset + n)

\* mutant of Tell: the offset is taken before seeking to the end of the file
TellMut(bytes) == 0

\* active_file.tell() once positioned at the end of the file
Tell(bytes) == Len(bytes)

\* ------------------------------------------------------------ index (dict)
HasKey(idx, k) == \E i \in 1..Len(idx) : idx[i].k = k

Entry(idx, k) == idx[CHOOSE i \in 1..Len(idx) : idx[i].k = k]

\* mutant of IndexPut: an existing entry is kept (setdefault)
IndexPutMut(idx, k, fname, offset, size) ==
    IF HasKey(idx, k) THEN idx
    ELSE Append(idx, [k |-> k, file |-> fname, offset |-> offset, size |-> size])

\* self.index[k] = (filename, offset, record_size)
IndexPut(idx, k, fname, offset, size) ==
    LET e == [k |-> k, file |-> fname, offset |-> offset, size |-> size]
    IN  IF HasKey(idx, k)
        THEN [i \in 1..Len(idx) |-> IF idx[i].k = k THEN e ELSE idx[i]]
        ELSE Append(idx, e)

\* mutant of IndexPop: the entry is left in the index
IndexPopMut(idx, k) == idx

\* self.index.pop(k, None)
IndexPop(idx, k) == SelectSeq(idx, LAMBDA e : e.k # k)

\* ------------------------------------------------------------ segment store
\* mutant of NextSegmentName: the files are counted instead of taking the
\* highest number
NextSegmentNameMut(fs) == Cardinality(DOMAIN fs \ {ACTIVE}) + 1

\* _next_segment_name: number of the next sealed segment
NextSegmentName(fs) ==
    LET existing == DOMAIN fs \ {ACTIVE}
    IN  IF existing = {} THEN 1 ELSE SetMax(existing) + 1

\* _open_or_create: open(path, "ab+") creates active.log when it is missing
OpenOrCreate(fs) ==
    IF ACTIVE \in DOMAIN fs THEN fs
    ELSE [n \in DOMAIN fs \cup {ACTIVE} |-> IF n = ACTIVE THEN <<>> ELSE fs[n]]

\* the size test of _rotate_active_if_needed
NeedsRotate(fs, af, key_len, val_len) ==
    /\ af # NoFile
    /\ Len(fs[ACTIVE]) + HEADER_SIZE + key_len + val_len > max_active_size

\* mutant of RotateActiveIfNeeded: the sealed name is always the first one
RotateActiveIfNeededFirst(fs, af, key_len, val_len) ==
    IF af = NoFile THEN OpenOrCreate(fs)
    ELSE IF NeedsRotate(fs, af, key_len, val_len)
         THEN [n \in DOMAIN fs \cup {1} |->
                  IF n = 1 THEN fs[ACTIVE]
                  ELSE IF n = ACTIVE THEN <<>>
                  ELSE fs[n]]
         ELSE fs

\* mutant of RotateActiveIfNeeded: a closed store reopens active.log truncated
RotateActiveIfNeededMut(fs, af, key_len, val_len) ==
    IF af = NoFile
    THEN [n \in DOMAIN fs \cup {ACTIVE} |-> IF n = ACTIVE THEN <<>> ELSE fs[n]]
    ELSE IF NeedsRotate(fs, af, key_len, val_len)
         THEN LET seg_name == NextSegmentName(fs)
              IN  [n \in DOMAIN fs \cup {seg_name} |->
                      IF n = seg_name THEN fs[ACTIVE]
                      ELSE IF n = ACTIVE THEN <<>>
                      ELSE fs[n]]
         ELSE fs

\* _rotate_active_if_needed: the directory it leaves
RotateActiveIfNeeded(fs, af, key_len, val_len) ==
    IF af = NoFile THEN OpenOrCreate(fs)
    ELSE IF NeedsRotate(fs, af, key_len, val_len)
         THEN LET seg_name == NextSegmentName(fs)
              IN  [n \in DOMAIN fs \cup {seg_name} |->
                      IF n = seg_name THEN fs[ACTIVE]
                      ELSE IF n = ACTIVE THEN <<>>
                      ELSE fs[n]]
         ELSE fs

\* ------------------------------------------------------------ get
\* get(key): the result for key k in a directory fs with index idx
GetIn(fs, idx, k) ==
    IF ~HasKey(idx, k) THEN None
    ELSE LET entry == Entry(idx, k)
         IN  IF entry.file \notin DOMAIN fs THEN Error
             ELSE LET f == fs[entry.file]
                      header == Read(f, entry.offset, HEADER_SIZE)
                  IN  IF Len(header) < HEADER_SIZE THEN Error
                      ELSE LET key_len == UnU32(SubSeq(header, 1, 4))
                               val_len == UnU32(SubSeq(header, 5, 8))
                               tomb == header[9]
                           IN  IF tomb = 1 THEN None
                               ELSE Value(Read(f, entry.offset + HEADER_SIZE + key_len, val_len))

GetResult(k) == GetIn(files, index, k)

\* ------------------------------------------------------------ initial state
Init ==
    /\ max_active_size \in MaxActiveSizes
    /\ files = [n \in {ACTIVE} |-> <<>>]
    /\ index = <<>>
    /\ active_file = OpenFile
    /\ last = NoOp
    /\ prev = NoOp
    /\ got = NoGet
    /\ live = [k \in Keys |-> None]
    /\ created = <<>>
    /\ comp = CompIdle
    /\ rd = RdIdle
    /\ nops = 0

\* ------------------------------------------------------------ operations
\* set(key, value)
Set(k, v) ==
    /\ nops < MaxOps
    /\ LET rot == NeedsRotate(files, active_file, Len(k), Len(v))
           fs1 == RotateActiveIfNeeded(files, active_file, Len(k), Len(v))
           offset == Tell(fs1[ACTIVE])
           header == Pack(Len(k), Len(v), 0)
           record_size == HEADER_SIZE + Len(k) + Len(v)
       IN  /\ files' = [fs1 EXCEPT ![ACTIVE] = @ \o header \o k \o v]
           /\ index' = IndexPut(index, k, ACTIVE, offset, record_size)
           /\ last' = Op("set", k, v, rot, TRUE)
           /\ created' = IF rot THEN Append(created, NextSegmentName(files)) ELSE created
    /\ active_file' = OpenFile
    /\ prev' = last
    /\ got' = NoGet
    /\ live' = [live EXCEPT ![k] = Value(v)]
    /\ nops' = nops + 1
    /\ UNCHANGED <<max_active_size, comp, rd>>

\* get(key)
Get(k) ==
    /\ got' = [key |-> k, res |-> GetResult(k), fresh |-> TRUE]
    /\ UNCHANGED <<files, index, active_file, max_active_size, last, prev, live, created, comp, rd, nops>>

\* delete(key)
Delete(k) ==
    /\ nops < MaxOps
    /\ LET rot == NeedsRotate(files, active_file, Len(k), 0)
           fs1 == RotateActiveIfNeeded(files, active_file, Len(k), 0)
           header == Pack(Len(k), 0, 1)
       IN  /\ files' = [fs1 EXCEPT ![ACTIVE] = @ \o header \o k]
           /\ last' = Op("delete", k, <<>>, rot, TRUE)
           /\ created' = IF rot THEN Append(created, NextSegmentName(files)) ELSE created
    /\ index' = IndexPop(index, k)
    /\ active_file' = OpenFile
    /\ prev' = last
    /\ got' = NoGet
    /\ live' = [live EXCEPT ![k] = None]
    /\ nops' = nops + 1
    /\ UNCHANGED <<max_active_size, comp, rd>>

\* mutant of CompactRead: the key bytes are not skipped before the value is read
CompactReadMut(fs, entry) ==
    IF entry.file \notin DOMAIN fs THEN Error
    ELSE LET in_f == fs[entry.file]
             header == Read(in_f, entry.offset, HEADER_SIZE)
         IN  IF Len(header) < HEADER_SIZE THEN Error
             ELSE LET val_len == UnU32(SubSeq(header, 5, 8))
                      tomb == header[9]
                  IN  IF tomb # 0 THEN Error
                      ELSE Value(Read(in_f, entry.offset + HEADER_SIZE, val_len))

\* the read of one indexed record inside compact(): the value bytes, or the
\* struct.error / AssertionError that aborts the compaction
CompactRead(fs, entry) ==
    IF entry.file \notin DOMAIN fs THEN Error
    ELSE LET in_f == fs[entry.file]
             header == Read(in_f, entry.offset, HEADER_SIZE)
         IN  IF Len(header) < HEADER_SIZE THEN Error
             ELSE LET key_len == UnU32(SubSeq(header, 1, 4))
                      val_len == UnU32(SubSeq(header, 5, 8))
                      tomb == header[9]
                  IN  IF tomb # 0 THEN Error
                      ELSE Value(Read(in_f, entry.offset + HEADER_SIZE + key_len, val_len))

\* mutant of CompactLoop: the offset is taken after the record is written
RECURSIVE CompactLoopMut(_, _, _, _, _, _)
CompactLoopMut(fs, idx, i, compact_name, out, new_index) ==
    IF i > Len(idx) THEN [ok |-> TRUE, out |-> out, new_index |-> new_index]
    ELSE LET r == CompactRead(fs, idx[i])
         IN  IF r.tag = "error" THEN [ok |-> FALSE, out |-> out, new_index |-> new_index]
             ELSE LET k == idx[i].k
                      v == r.val
                      header == Pack(Len(k), Len(v), 0)
                      new_offset == Tell(out \o header \o k \o v)
                      record_size == HEADER_SIZE + Len(k) + Len(v)
                  IN  CompactLoopMut(fs, idx, i + 1, compact_name,
                                     out \o header \o k \o v,
                                     IndexPut(new_index, k, compact_name, new_offset, record_size))

\* the loop of compact() over self.index.items(), from entry i on: the bytes
\* written to the new segment, the new index, and whether the loop completed
RECURSIVE CompactLoop(_, _, _, _, _, _)
CompactLoop(fs, idx, i, compact_name, out, new_index) ==
    IF i > Len(idx) THEN [ok |-> TRUE, out |-> out, new_index |-> new_index]
    ELSE LET r == CompactRead(fs, idx[i])
         IN  IF r.tag = "error" THEN [ok |-> FALSE, out |-> out, new_index |-> new_index]
             ELSE LET k == idx[i].k
                      v == r.val
                      new_offset == Tell(out)
                      header == Pack(Len(k), Len(v), 0)
                      record_size == HEADER_SIZE + Len(k) + Len(v)
                  IN  CompactLoop(fs, idx, i + 1, compact_name,
                                  out \o header \o k \o v,
                                  IndexPut(new_index, k, compact_name, new_offset, record_size))

\* compact(): when a read fails the exception leaves the partly written new
\* segment behind and nothing else is touched
Compact ==
    /\ nops < MaxOps
    /\ LET compact_name == NextSegmentName(files)
           r == CompactLoop(files, index, 1, compact_name, <<>>, <<>>)
       IN  /\ created' = Append(created, compact_name)
           /\ IF r.ok
              THEN /\ files' = [n \in {compact_name, ACTIVE} |->
                                   IF n = compact_name THEN r.out ELSE <<>>]
                   /\ index' = r.new_index
                   /\ active_file' = OpenFile
                   /\ last' = Op("compact", <<>>, <<>>, FALSE, TRUE)
              ELSE /\ files' = [n \in DOMAIN files \cup {compact_name} |->
                                   IF n = compact_name THEN r.out ELSE files[n]]
                   /\ last' = Op("compact", <<>>, <<>>, FALSE, FALSE)
                   /\ UNCHANGED <<index, active_file>>
    /\ prev' = last
    /\ got' = NoGet
    /\ nops' = nops + 1
    /\ UNCHANGED <<max_active_size, live, comp, rd>>

\* close()
Close ==
    /\ nops < MaxOps
    /\ active_file' = NoFile
    /\ last' = Op("close", <<>>, <<>>, FALSE, TRUE)
    /\ prev' = last
    /\ got' = NoGet
    /\ nops' = nops + 1
    /\ UNCHANGED <<files, index, max_active_size, live, created, comp, rd>>

\* sorted(): "active.log" sorts before every "segment-NNNNN.log", and the
\* zero-padded segment names sort by number
NameLess(f, g) ==
    IF f = ACTIVE THEN g # ACTIVE
    ELSE g # ACTIVE /\ f < g

\* sorted(fname for fname in os.listdir(dirpath) if fname.endswith(".log"))
RECURSIVE SortedLogs(_)
SortedLogs(names) ==
    IF names = {} THEN <<>>
    ELSE LET first == CHOOSE f \in names : \A g \in names \ {f} : NameLess(f, g)
         IN  <<first>> \o SortedLogs(names \ {first})

\* the while loop of _rebuild_index over one file, from offset on
RECURSIVE ReplayFile(_, _, _, _)
ReplayFile(idx, fname, f, offset) ==
    LET header == Read(f, offset, HEADER_SIZE)
    IN  IF Len(header) < HEADER_SIZE THEN idx
        ELSE LET key_len == UnU32(SubSeq(header, 1, 4))
                 val_len == UnU32(SubSeq(header, 5, 8))
                 tomb == header[9]
                 k == Read(f, offset + HEADER_SIZE, key_len)
                 record_size == HEADER_SIZE + key_len + val_len
             IN  ReplayFile(IF tomb = 1 THEN IndexPop(idx, k)
                            ELSE IndexPut(idx, k, fname, offset, record_size),
                            fname, f, offset + record_size)

\* the for loop of _rebuild_index over the sorted file names, from position i on
RECURSIVE ReplayLogs(_, _, _, _)
ReplayLogs(idx, fs, logs, i) ==
    IF i > Len(logs) THEN idx
    ELSE ReplayLogs(ReplayFile(idx, logs[i], fs[logs[i]], 0), fs, logs, i + 1)

\* _rebuild_index on a fresh (empty) index
RebuildIndex(fs) == ReplayLogs(<<>>, fs, SortedLogs(DOMAIN fs), 1)

\* LogStructuredKV(dirpath, max_active_size) on the directory of a closed store
Reopen ==
    /\ nops < MaxOps
    /\ active_file = NoFile
    /\ files' = OpenOrCreate(files)
    /\ index' = RebuildIndex(OpenOrCreate(files))
    /\ active_file' = OpenFile
    /\ last' = Op("open", <<>>, <<>>, FALSE, TRUE)
    /\ prev' = last
    /\ got' = NoGet
    /\ nops' = nops + 1
    /\ UNCHANGED <<max_active_size, live, created, comp, rd>>

Next ==
    \/ \E k \in Keys, v \in Values : Set(k, v)
    \/ \E k \in Keys : Get(k)
    \/ \E k \in Keys : Delete(k)
    \/ Compact
    \/ Close
    \/ Reopen

Spec == Init /\ [][Next]_vars

\* ------------------------------------------------------------ properties
\* the step just taken is the operation called name
Step(name) == last'.op = name /\ nops' = nops + 1

\* the records of a well-formed segment, in file order
RECURSIVE ParseRecords(_, _)
ParseRecords(f, offset) ==
    LET header == Read(f, offset, HEADER_SIZE)
    IN  IF Len(header) < HEADER_SIZE THEN <<>>
        ELSE LET key_len == UnU32(SubSeq(header, 1, 4))
                 val_len == UnU32(SubSeq(header, 5, 8))
             IN  <<[k |-> Read(f, offset + HEADER_SIZE, key_len),
                    v |-> Read(f, offset + HEADER_SIZE + key_len, val_len),
                    tomb |-> header[9]]>>
                 \o ParseRecords(f, offset + HEADER_SIZE + key_len + val_len)

\* C1: a get(k) issued right after set(k, v) returns exactly v, the empty
\* value and a set that rotated the active segment included.
C1_RoundTrip ==
    (last.op = "set" /\ got.fresh /\ got.key = last.key) => got.res = Value(last.val)

C1_Witness ==
    /\ last.op = "set" /\ last.rot /\ last.val = <<>>
    /\ Len(files[ACTIVE]) > 0
    /\ got.fresh /\ got.key = last.key /\ got.res = Value(<<>>)

\* C2: after a set or delete that rotated the active segment, every key that
\* is set and not deleted is returned by get with its last-written value.
C2_RotationKeepsReadable ==
    (last.op \in {"set", "delete"} /\ last.rot) =>
        \A k \in Keys : live[k].tag = "value" => GetResult(k) = live[k]

\* C3: after close() and a reopen on the same directory, get returns the
\* last-written value of every live key and not-found for every deleted key.
C3_RestartDurability ==
    last.op = "open" => \A k \in Keys : GetResult(k) = live[k]

\* C4: for every key, get right after compact() returns what get returned
\* right before it (the same value, or not-found).
C4_CompactPreservesReads ==
    [][Step("compact") =>
          \A k \in Keys : GetIn(files', index', k) = GetIn(files, index, k)]_vars

C4_Witness ==
    /\ last.op = "compact" /\ last.ok
    /\ prev.op = "delete"
    /\ Len(index) > 0
    /\ \E k \in Keys : GetResult(k).tag = "value" /\ GetResult(k) = live[k]
    /\ \E k \in Keys : GetResult(k) = None

\* C5: set(k, v1), set(k, v2), get(k) returns v2, also when a rotation
\* happens between or during the two sets.
C5_LastWriteWins ==
    (prev.op = "set" /\ last.op = "set" /\ prev.key = last.key
        /\ got.fresh /\ got.key = last.key) => got.res = Value(last.val)

C5_Witness ==
    /\ prev.op = "set" /\ last.op = "set" /\ prev.key = last.key
    /\ prev.val # last.val /\ last.rot
    /\ got.fresh /\ got.key = last.key /\ got.res = Value(last.val)

\* C6: set(k, v), delete(k), get(k) returns not-found, and k has no index
\* entry after the delete.
C6_Tombstone ==
    (prev.op = "set" /\ last.op = "delete" /\ prev.key = last.key) =>
        /\ ~HasKey(index, last.key)
        /\ (got.fresh /\ got.key = last.key) => got.res = None

C6_Witness ==
    /\ prev.op = "set" /\ last.op = "delete" /\ prev.key = last.key
    /\ got.fresh /\ got.key = last.key /\ got.res = None

\* C7: delete(k) of a key that is not in the index appends exactly one
\* tombstone record (flag 1, value length 0) for k to the active segment,
\* and a following get(k) returns not-found.
C7_NoOpDelete ==
    [][\A k \in Keys :
          (Step("delete") /\ last'.key = k /\ ~HasKey(index, k)) =>
              LET tombstone == <<0, 0, 0, Len(k), 0, 0, 0, 0, 1>> \o k
              IN  /\ last'.ok
                  /\ IF last'.rot
                     THEN /\ files'[ACTIVE] = tombstone
                          /\ files'[NextSegmentName(files)] = files[ACTIVE]
                     ELSE files'[ACTIVE] = files[ACTIVE] \o tombstone
                  /\ \A n \in DOMAIN files \ {ACTIVE} : files'[n] = files[n]
                  /\ GetIn(files', index', k) = None]_vars

C7_Witness ==
    /\ last.op = "delete" /\ prev.op = "delete" /\ prev.key = last.key
    /\ ~last.rot
    /\ Len(ParseRecords(files[ACTIVE], 0)) = 2
    /\ got.fresh /\ got.key = last.key /\ got.res = None

\* C8: right after compact() the directory holds exactly one sealed segment
\* and an empty active segment, and the sealed segment holds exactly one live
\* record per key that was retrievable before, with its last-written value,
\* no tombstone and no record of a deleted key.
C8_CompactFootprint ==
    [][Step("compact") =>
          LET seg == NextSegmentName(files)
              before == {k \in Keys : GetIn(files, index, k).tag = "value"}
          IN  /\ DOMAIN files' = {ACTIVE, seg}
              /\ files'[ACTIVE] = <<>>
              /\ LET recs == ParseRecords(files'[seg], 0)
                 IN  /\ \A i \in 1..Len(recs) :
                            /\ recs[i].tomb = 0
                            /\ recs[i].k \in before
                            /\ live[recs[i].k] = Value(recs[i].v)
                     /\ \A k \in before :
                            Cardinality({i \in 1..Len(recs) : recs[i].k = k}) = 1]_vars

\* C9: get(k) of a key that was never set, or whose latest operation is a
\* delete, returns None and raises no error, in every open state.
C9_NotFoundIsNone ==
    (active_file = OpenFile /\ got.fresh /\ live[got.key] = None) => got.res = None

AsSet(idx) == {idx[i] : i \in 1..Len(idx)}

\* the order in which the segments were created: sealed segments by number,
\* the active segment last
RECURSIVE CreationOrder(_)
CreationOrder(names) ==
    IF names = {} THEN <<>>
    ELSE IF names = {ACTIVE} THEN <<ACTIVE>>
    ELSE LET first == CHOOSE f \in names \ {ACTIVE} : \A g \in names \ {ACTIVE} : f <= g
         IN  <<first>> \o CreationOrder(names \ {first})

\* the records of one file with their locations, in file order
RECURSIVE Located(_, _, _)
Located(fname, f, offset) ==
    LET header == Read(f, offset, HEADER_SIZE)
    IN  IF Len(header) < HEADER_SIZE THEN <<>>
        ELSE LET key_len == UnU32(SubSeq(header, 1, 4))
                 val_len == UnU32(SubSeq(header, 5, 8))
             IN  <<[file |-> fname, offset |-> offset,
                    k |-> Read(f, offset + HEADER_SIZE, key_len),
                    tomb |-> header[9],
                    size |-> HEADER_SIZE + key_len + val_len]>>
                 \o Located(fname, f, offset + HEADER_SIZE + key_len + val_len)

\* every record on disk with its location, oldest first
RECURSIVE AllRecords(_, _, _)
AllRecords(fs, order, i) ==
    IF i > Len(order) THEN <<>>
    ELSE Located(order[i], fs[order[i]], 0) \o AllRecords(fs, order, i + 1)

\* C11: at open the sealed segments are replayed oldest first and the active
\* segment last, so the index is the one a replay in creation order yields:
\* the most recently written record of a key decides its entry.
C11_ReplayOrder ==
    last.op = "open" =>
        AsSet(index) = AsSet(ReplayLogs(<<>>, files, CreationOrder(DOMAIN files), 1))

\* C12: in every open state the index has at most one entry per key, and each
\* entry designates a complete live record of that key which is the most
\* recently appended record of that key across all segments.
C12_IndexLogConsistent ==
    active_file = OpenFile =>
        LET recs == AllRecords(files, CreationOrder(DOMAIN files), 1)
        IN  /\ \A i, j \in 1..Len(index) : index[i].k = index[j].k => i = j
            /\ \A i \in 1..Len(index) :
                   \E r \in 1..Len(recs) :
                       /\ recs[r].file = index[i].file
                       /\ recs[r].offset = index[i].offset
                       /\ recs[r].size = index[i].size
                       /\ recs[r].k = index[i].k
                       /\ recs[r].tomb = 0
                       /\ recs[r].offset + recs[r].size <= Len(files[recs[r].file])
                       /\ \A q \in (r + 1)..Len(recs) : recs[q].k # index[i].k

\* C13: the record read at the (file, offset) of an index entry has
\* tombstone flag 0, in every reachable state.
C13_NoEntryOnTombstone ==
    \A i \in 1..Len(index) :
        /\ index[i].file \in DOMAIN files
        /\ LET header == Read(files[index[i].file], index[i].offset, HEADER_SIZE)
           IN  Len(header) = HEADER_SIZE /\ header[9] = 0

\* ------------------------------------------------------------ torn tail
\* the last append to active.log reached the disk only in part: the header
\* is whole, n bytes of the key/value part are missing.  The store is closed.
TornTail(n) ==
    /\ nops < MaxOps
    /\ active_file = NoFile
    /\ LET recs == Located(ACTIVE, files[ACTIVE], 0)
       IN  /\ Len(recs) > 0
           /\ LET r == recs[Len(recs)]
              IN  /\ r.offset + r.size = Len(files[ACTIVE])
                  /\ n <= r.size - HEADER_SIZE
                  /\ files' = [files EXCEPT ![ACTIVE] = SubSeq(@, 1, Len(@) - n)]
    /\ last' = Op("torn", <<>>, <<>>, FALSE, TRUE)
    /\ prev' = last
    /\ got' = NoGet
    /\ nops' = nops + 1
    /\ UNCHANGED <<index, active_file, max_active_size, live, created, comp, rd>>

NextTorn ==
    \/ Next
    \/ \E n \in 1..3 : TornTail(n)

SpecTorn == Init /\ [][NextTorn]_vars

\* a replay of one file that stops at the last complete record
RECURSIVE ReplayFileComplete(_, _, _, _)
ReplayFileComplete(idx, fname, f, offset) ==
    LET header == Read(f, offset, HEADER_SIZE)
    IN  IF Len(header) < HEADER_SIZE THEN idx
        ELSE LET key_len == UnU32(SubSeq(header, 1, 4))
                 val_len == UnU32(SubSeq(header, 5, 8))
                 record_size == HEADER_SIZE + key_len + val_len
             IN  IF offset + record_size > Len(f) THEN idx
                 ELSE LET k == Read(f, offset + HEADER_SIZE, key_len)
                      IN  ReplayFileComplete(IF header[9] = 1 THEN IndexPop(idx, k)
                                             ELSE IndexPut(idx, k, fname, offset, record_size),
                                             fname, f, offset + record_size)

RECURSIVE ReplayLogsComplete(_, _, _, _)
ReplayLogsComplete(idx, fs, logs, i) ==
    IF i > Len(logs) THEN idx
    ELSE ReplayLogsComplete(ReplayFileComplete(idx, logs[i], fs[logs[i]], 0), fs, logs, i + 1)

\* C14: when a segment ends with a complete header followed by fewer
\* key/value bytes than it announces, the replay at open stops at the last
\* complete record of that segment and neither adds nor removes an index
\* entry for the partial record.
C14_TornTailIgnored ==
    (last.op = "open" /\ prev.op = "torn") =>
        AsSet(index) = AsSet(ReplayLogsComplete(<<>>, files, SortedLogs(DOMAIN files), 1))

\* C15: the index that _rebuild_index produces on reopen is identical, entry
\* for entry (key, segment file, offset, record length), to the in-memory
\* index held right before close().
C15_RebuildEqualsIncremental ==
    [][Step("open") => AsSet(index') = AsSet(index)]_vars

\* C16: in every reachable state the active segment is at most
\* max_active_size bytes long, unless it holds a single record that alone is
\* larger than max_active_size.
C16_ActiveSizeBound ==
    \/ Len(files[ACTIVE]) <= max_active_size
    \/ Len(Located(ACTIVE, files[ACTIVE], 0)) = 1

\* C17: when active size + incoming record size exceeds max_active_size, the
\* active file is renamed to the next sequential sealed name with its bytes
\* unchanged, the incoming record is written at offset 0 of a new active
\* segment, and no record already on disk is lost or altered.
C17_RotationStep ==
    [][((Step("set") \/ Step("delete"))
          /\ Len(files[ACTIVE]) + HEADER_SIZE + Len(last'.key) + Len(last'.val)
                > max_active_size) =>
          LET seg == NextSegmentName(files)
              recs == Located(ACTIVE, files'[ACTIVE], 0)
          IN  /\ DOMAIN files' = DOMAIN files \cup {seg}
              /\ seg \notin DOMAIN files
              /\ files'[seg] = files[ACTIVE]
              /\ \A n \in DOMAIN files \ {ACTIVE} : files'[n] = files[n]
              /\ Len(recs) = 1
              /\ recs[1].offset = 0
              /\ recs[1].k = last'.key
              /\ recs[1].size = Len(files'[ACTIVE])]_vars

\* C18: right after a compact() that returns, every index entry names the
\* single newly written segment with the offset and length of the record
\* written there for its key, the index has the keys it had before, and the
\* active segment is empty.
C18_PostCompactionIndex ==
    [][(Step("compact") /\ last'.ok) =>
          LET seg == NextSegmentName(files)
              recs == Located(seg, files'[seg], 0)
          IN  /\ seg \notin DOMAIN files
              /\ files'[ACTIVE] = <<>>
              /\ {index'[i].k : i \in 1..Len(index')} = {index[i].k : i \in 1..Len(index)}
              /\ Len(index') = Len(recs)
              /\ \A i \in 1..Len(index') :
                     /\ index'[i].file = seg
                     /\ \E r \in 1..Len(recs) :
                            /\ recs[r].k = index'[i].k
                            /\ recs[r].offset = index'[i].offset
                            /\ recs[r].size = index'[i].size
                            /\ recs[r].tomb = 0
                            /\ recs[r].offset + recs[r].size <= Len(files'[seg])]_vars

C18_Witness ==
    /\ last.op = "compact" /\ last.ok
    /\ Len(index) = 2
    /\ index[2].offset > 0
    /\ \A i \in 1..2 : index[i].file # ACTIVE /\ index[i].file \in DOMAIN files
    /\ files[ACTIVE] = <<>>

\* C19: every number _next_segment_name returns is strictly greater than the
\* number of every sealed segment created before it, those since deleted by
\* a compaction included, also across close and reopen.
C19_SegmentNamesNeverReused ==
    \A i, j \in 1..Len(created) : i < j => created[i] < created[j]

C19_Witness ==
    /\ Len(created) >= 3
    /\ \E i \in 1..Len(created) : created[i] \notin DOMAIN files
    /\ prev.op = "compact"
    /\ last.op \in {"set", "delete"} /\ last.rot

\* C20: set, get, delete, rotation, close and reopen never change the bytes
\* of a sealed segment and never delete one; a sealed segment disappears only
\* through compact(), and only the active segment accepts appends.
C20_SealedImmutable ==
    [][/\ ACTIVE \in DOMAIN files'
       /\ \A n \in DOMAIN files \ {ACTIVE} :
              /\ ~Step("compact") => n \in DOMAIN files'
              /\ n \in DOMAIN files' => files'[n] = files[n]]_vars

C20_Witness ==
    /\ Cardinality(DOMAIN files) >= 3
    /\ last.op \in {"set", "delete"} /\ last.rot
    /\ prev.op \in {"set", "delete"} /\ prev.rot
    /\ \A n \in DOMAIN files : Len(files[n]) > 0

\* C23: for two distinct keys k and k2, set(k, v) and delete(k) leave the
\* result of get(k2) unchanged, also when the operation rotates the active
\* segment; get itself changes neither the index nor any file.
C23_KeyIsolation ==
    [][/\ (Step("set") \/ Step("delete")) =>
              \A k2 \in Keys \ {last'.key} :
                  GetIn(files', index', k2) = GetIn(files, index, k2)
       /\ (got'.fresh /\ got' # got) => (files' = files /\ index' = index)]_vars

\* ------------------------------------------------------------ compact() and get() step by step
\* mutant of RemoveFile: the file is left in the directory
RemoveFileMut(fs, f) == fs

\* os.remove(path)
RemoveFile(fs, f) == [n \in DOMAIN fs \ {f} |-> fs[n]]

\* the directory with file f holding bytes b (created when missing)
WriteFile(fs, f, b) == [n \in DOMAIN fs \cup {f} |-> IF n = f THEN b ELSE fs[n]]

\* compact(), up to the open of the new segment
CompactBegin ==
    /\ nops < MaxOps
    /\ comp.pc = "idle"
    /\ LET compact_name == NextSegmentName(files)
       IN  /\ files' = WriteFile(files, compact_name, <<>>)
           /\ created' = Append(created, compact_name)
           /\ comp' = [pc |-> "copy", name |-> compact_name, i |-> 1, out |-> <<>>,
                       new_index |-> <<>>, todo |-> {}, closed |-> active_file = NoFile]
    /\ nops' = nops + 1
    /\ UNCHANGED <<index, active_file, max_active_size, last, prev, got, live, rd>>

\* compact(), one turn of the loop over self.index.items(): the record is
\* read and written to the buffer of out_f; a failed read ends the call and
\* the with block writes the buffer out
CompactCopy ==
    /\ comp.pc = "copy"
    /\ comp.i <= Len(index)
    /\ LET r == CompactRead(files, index[comp.i])
           k == index[comp.i].k
           v == r.val
           new_offset == Tell(comp.out)
           header == Pack(Len(k), Len(v), 0)
           record_size == HEADER_SIZE + Len(k) + Len(v)
       IN  IF r.tag = "error"
           THEN /\ files' = WriteFile(files, comp.name, comp.out)
                /\ comp' = CompIdle
                /\ last' = [Op("compact", <<>>, <<>>, FALSE, FALSE) EXCEPT !.closed = comp.closed]
                /\ prev' = last
                /\ got' = NoGet
           ELSE /\ comp' = [comp EXCEPT !.i = @ + 1,
                                        !.out = @ \o header \o k \o v,
                                        !.new_index = IndexPut(@, k, comp.name, new_offset,
                                                               record_size)]
                /\ UNCHANGED <<files, last, prev, got>>
    /\ UNCHANGED <<index, active_file, max_active_size, live, created, rd, nops>>

\* compact(), the end of the with block, the close of the active file and
\* the os.listdir() of the files to remove
CompactCopyEnd ==
    /\ comp.pc = "copy"
    /\ comp.i > Len(index)
    /\ files' = WriteFile(files, comp.name, comp.out)
    /\ comp' = [comp EXCEPT !.pc = "remove", !.todo = DOMAIN files \ {comp.name}]
    /\ UNCHANGED <<index, active_file, max_active_size, last, prev, got, live, created, rd, nops>>

\* compact(), one os.remove(); a get that has resolved an entry in file f
\* and not read yet is marked
CompactRemove(f) ==
    /\ comp.pc = "remove"
    /\ f \in comp.todo
    /\ files' = RemoveFile(files, f)
    /\ comp' = [comp EXCEPT !.todo = @ \ {f}]
    /\ rd' = IF rd.pc = "resolved" /\ rd.entry.file = f THEN [rd EXCEPT !.hit = TRUE] ELSE rd
    /\ UNCHANGED <<index, active_file, max_active_size, last, prev, got, live, created, nops>>

\* compact(), the open of the new active segment
CompactReopen ==
    /\ comp.pc = "remove"
    /\ comp.todo = {}
    /\ files' = OpenOrCreate(files)
    /\ active_file' = OpenFile
    /\ comp' = [comp EXCEPT !.pc = "swap"]
    /\ UNCHANGED <<index, max_active_size, last, prev, got, live, created, rd, nops>>

\* compact(), self.index = new_index and the return
CompactSwap ==
    /\ comp.pc = "swap"
    /\ index' = comp.new_index
    /\ comp' = CompIdle
    /\ last' = [Op("compact", <<>>, <<>>, FALSE, TRUE) EXCEPT !.closed = comp.closed]
    /\ prev' = last
    /\ got' = NoGet
    /\ UNCHANGED <<files, active_file, max_active_size, live, created, rd, nops>>

\* get(key), the index lookup; a key without entry returns None at once
GetResolve(k) ==
    /\ rd.pc = "idle"
    /\ rd' = IF HasKey(index, k)
             THEN [pc |-> "resolved", key |-> k, entry |-> Entry(index, k),
                   hit |-> FALSE, res |-> None]
             ELSE [pc |-> "done", key |-> k, entry |-> NoEntry, hit |-> FALSE, res |-> None]
    /\ UNCHANGED <<files, index, active_file, max_active_size, last, prev, got, live,
                   created, comp, nops>>

\* get(key), the open of the resolved file and the read at the resolved offset
GetRead ==
    /\ rd.pc = "resolved"
    /\ rd' = [rd EXCEPT !.pc = "done", !.res = GetIn(files, <<rd.entry>>, rd.key)]
    /\ UNCHANGED <<files, index, active_file, max_active_size, last, prev, got, live,
                   created, comp, nops>>

\* get(key), the result is handed to the caller
GetReturn ==
    /\ rd.pc = "done"
    /\ rd' = RdIdle
    /\ UNCHANGED <<files, index, active_file, max_active_size, last, prev, got, live,
                   created, comp, nops>>

\* no call is in progress
Quiet == comp.pc = "idle" /\ rd.pc = "idle"

NextSteps ==
    \/ Quiet /\ \E k \in Keys, v \in Values : Set(k, v)
    \/ Quiet /\ \E k \in Keys : Delete(k)
    \/ Quiet /\ Close
    \/ Quiet /\ Reopen
    \/ CompactBegin
    \/ CompactCopy
    \/ CompactCopyEnd
    \/ \E f \in comp.todo : CompactRemove(f)
    \/ CompactReopen
    \/ CompactSwap
    \/ \E k \in Keys : GetResolve(k)
    \/ GetRead
    \/ GetReturn

SpecSteps == Init /\ [][NextSteps]_vars

\* key k has a live record with value v in some file of the directory
OnDisk(k, v) ==
    \E n \in DOMAIN files :
        LET recs == ParseRecords(files[n], 0)
        IN  \E i \in 1..Len(recs) : recs[i].k = k /\ recs[i].v = v /\ recs[i].tomb = 0

\* C21: at every intermediate step of compact() the latest value of each
\* live key is present in at least one segment file on disk.
C21_CompactKeepsLiveOnDisk ==
    comp.pc # "idle" =>
        \A k \in Keys : live[k].tag = "value" => OnDisk(k, live[k].val)

\* C22: a get(k) that resolved its index entry before compact() removed the
\* file of that entry, and reads after the removal, does not return the
\* value of k: it fails on the missing (or emptied) file.
C22_GetCompactRace ==
    (rd.pc = "done" /\ rd.hit) => rd.res.tag = "error"

C22_Witness ==
    /\ rd.pc = "done" /\ rd.hit /\ rd.res = Error
    /\ live[rd.key].tag = "value"
    /\ rd.entry.file \notin DOMAIN files

====
